---- MODULE Spec2Model ----
(***************************************************************************)
(* ntl::Sockaddr (ntlSockaddr.hpp): a SOCKADDR_STORAGE sized byte buffer   *)
(* interpreted by its family tag.  The buffer is a sequence of bytes;      *)
(* index i of the sequence is byte offset i-1 of saddr.  Multi-byte fields *)
(* are little-endian, as on every Windows target.                          *)
(***************************************************************************)
EXTENDS Integers, Sequences, FiniteSets, TLC

VARIABLES saddr,    \* this->saddr
          other,    \* the Sockaddr or raw source the last call took, after the call
          op,       \* the member function called last
          args,     \* its scalar arguments
          ret,      \* its outcome: "void", "true", "false", "returned", "thrown" or "fatal"
          out,      \* its out-parameters (writeCompleteAddress: address, addressLength),
                    \* the vector ResolveName returned or the exception it threw
          fatal     \* AlwaysFatalCondition was reached: the process is gone

vars == <<saddr, other, op, args, ret, out, fatal>>

----------------------------------------------------------------------------
(* Sizes and tags.                                                          *)

SADDR_SIZE == 128
SIZEOF_SOCKADDR_IN == 16
SIZEOF_SOCKADDR_IN6 == 28
IP_STRING_MAX_LENGTH == 65
AF_UNSPEC == 0
AF_INET == 2
AF_INET6 == 23

\* how far past SADDR_SIZE the oversized raw sources reach
Oversize == 2

Max(x, y) == IF x >= y THEN x ELSE y

----------------------------------------------------------------------------
(* Memory primitives.                                                       *)

\* ::ZeroMemory(&saddr, n)
ZeroMemory(n) == [i \in 1..n |-> 0]

\* ::CopyMemory(dst, src, n): n bytes written from dst's first byte on; a
\* count beyond Len(dst) writes past the object, which shows as a longer result.
CopyMemory(dst, src, n) == SubSeq(src, 1, n) \o SubSeq(dst, n + 1, Len(dst))

\* a store of the bytes bs at byte offset off
Store(buf, off, bs) ==
    SubSeq(buf, 1, off) \o bs \o SubSeq(buf, off + Len(bs) + 1, Len(buf))

\* the n bytes at byte offset off
Load(buf, off, n) == SubSeq(buf, off + 1, off + n)

LE16(v) == <<v % 256, (v \div 256) % 256>>
LE32(v) == <<v % 256, (v \div 256) % 256, (v \div 65536) % 256, (v \div 16777216) % 256>>
FromLE16(bs) == bs[1] + 256 * bs[2]
FromLE32(bs) == bs[1] + 256 * bs[2] + 65536 * bs[3] + 16777216 * bs[4]

\* ::htons / ::ntohs on a little-endian host
htons(v) == ((v % 256) * 256) + ((v \div 256) % 256)
ntohs(v) == ((v % 256) * 256) + ((v \div 256) % 256)

----------------------------------------------------------------------------
(* Field access: SOCKADDR_IN is {family@0, port@2, addr@4, zero@8..15},     *)
(* SOCKADDR_IN6 is {family@0, port@2, flowinfo@4, addr@8, scope_id@24}.     *)

\* Sockaddr::family
family(buf) == FromLE16(Load(buf, 0, 2))
\* saddr.ss_family = f (a short, stored in two bytes)
SetFamily(buf, f) == Store(buf, 0, LE16(f % 65536))
\* sin_port, as the 16-bit value the host reads
sin_port(buf) == FromLE16(Load(buf, 2, 2))
SetSinPort(buf, v) == Store(buf, 2, LE16(v))
\* Sockaddr::port
port(buf) == ntohs(sin_port(buf))
\* Sockaddr::in_addr / in6_addr
in_addr(buf) == Load(buf, 4, 4)
in6_addr(buf) == Load(buf, 8, 16)
\* Sockaddr::scopeId
scopeId(buf) == IF family(buf) = AF_INET6 THEN FromLE32(Load(buf, 24, 4)) ELSE 0

----------------------------------------------------------------------------
(* Constructors and mutators, as functions of the buffer.                   *)

\* Sockaddr::Sockaddr(short family)
SockaddrFamily(f) == SetFamily(ZeroMemory(SADDR_SIZE), f)

\* the length the raw-buffer constructor copies
CopyLengthUnclamped(inLength) == inLength
CopyLength(inLength) == IF inLength <= SADDR_SIZE THEN inLength ELSE SADDR_SIZE

\* Sockaddr::Sockaddr(const SOCKADDR*, inLength) and setSockaddr(const SOCKADDR*, int)
SockaddrRaw(src, inLength) ==
    CopyMemory(ZeroMemory(SADDR_SIZE), src, CopyLength(inLength))

\* Sockaddr::reset
ResetBufValidated(f) ==
    SetFamily(ZeroMemory(SADDR_SIZE), IF f \in {AF_UNSPEC, AF_INET, AF_INET6} THEN f ELSE AF_UNSPEC)
ResetBuf(f) == SetFamily(ZeroMemory(SADDR_SIZE), f)

\* Sockaddr::setSockaddr(const SOCKADDR*, int)
SetSockaddrBuf(src, inLength) ==
    CopyMemory(ZeroMemory(SADDR_SIZE), src, CopyLength(inLength))

\* Sockaddr::Sockaddr(const Sockaddr&)
SockaddrCopy(inAddr) == CopyMemory(ZeroMemory(SADDR_SIZE), inAddr, SADDR_SIZE)

\* Sockaddr::Sockaddr(Sockaddr&&): the pair <<this, inAddr>> after the call
SockaddrMove(inAddr) ==
    <<CopyMemory(ZeroMemory(SADDR_SIZE), inAddr, SADDR_SIZE), inAddr>>

\* Sockaddr::operator=(Sockaddr&&): the pair <<this, inAddr>> after the call
MoveAssign(this, inAddr) ==
    <<CopyMemory(this, inAddr, SADDR_SIZE), ZeroMemory(SADDR_SIZE)>>

\* Sockaddr::swap: the pair <<this, inAddr>> after the call
SwapBuf(this, inAddr) == <<inAddr, this>>

\* Sockaddr::operator=(const Sockaddr&): copy and swap; the argument is const
CopyAssign(this, inAddr) == <<SwapBuf(this, SockaddrCopy(inAddr))[1], inAddr>>

\* Sockaddr::setPort
SetPortBuf(buf, p, order) ==
    SetSinPort(buf, IF order = "HostOrder" THEN htons(p) ELSE p)

\* Sockaddr::setAddress(const IN_ADDR*) / setAddress(const IN6_ADDR*)
SetAddressInResetFirst(buf, a4) ==
    Store(SetSinPort(SetFamily(ZeroMemory(SADDR_SIZE), AF_INET), sin_port(buf)), 4, a4)
SetAddressIn(buf, a4) == Store(SetFamily(buf, AF_INET), 4, a4)
SetAddressIn6(buf, a6) == Store(SetFamily(buf, AF_INET6), 8, a6)

\* Sockaddr::setFlowInfo / setScopeId
SetFlowInfoBuf(buf, v) == IF family(buf) = AF_INET6 THEN Store(buf, 4, LE32(v)) ELSE buf
SetScopeIdBuf(buf, v) == IF family(buf) = AF_INET6 THEN Store(buf, 24, LE32(v)) ELSE buf

\* 0x0100007f, the s_addr setAddressLoopback stores
INADDR_LOOPBACK_NET == 16777343

\* ntl::AlwaysFatalCondition: the call does not return
AlwaysFatalCondition == TRUE

\* Sockaddr::setAddressLoopback: the buffer and whether the fatal branch ran
SetAddressLoopbackLenient(buf) ==
    IF family(buf) = AF_INET THEN
        [saddr |-> Store(SetSinPort(SetFamily(ZeroMemory(SADDR_SIZE), AF_INET),
                                    sin_port(buf)), 4, LE32(INADDR_LOOPBACK_NET)),
         fatal |-> FALSE]
    ELSE
        [saddr |-> Store(SetSinPort(SetFamily(ZeroMemory(SADDR_SIZE), AF_INET6),
                                    sin_port(buf)), 8 + 15, <<1>>),
         fatal |-> FALSE]
SetAddressLoopbackBuf(buf) ==
    IF family(buf) = AF_INET THEN
        [saddr |-> Store(SetSinPort(SetFamily(ZeroMemory(SADDR_SIZE), AF_INET),
                                    sin_port(buf)), 4, LE32(INADDR_LOOPBACK_NET)),
         fatal |-> FALSE]
    ELSE IF family(buf) = AF_INET6 THEN
        [saddr |-> Store(SetSinPort(SetFamily(ZeroMemory(SADDR_SIZE), AF_INET6),
                                    sin_port(buf)), 8 + 15, <<1>>),
         fatal |-> FALSE]
    ELSE [saddr |-> buf, fatal |-> AlwaysFatalCondition]

\* Sockaddr::setAddressAny
SetAddressAnyKeepRest(buf) ==
    IF family(buf) = AF_INET THEN Store(buf, 4, ZeroMemory(4))
    ELSE IF family(buf) = AF_INET6 THEN Store(buf, 8, ZeroMemory(16))
    ELSE buf
SetAddressAnyBuf(buf) ==
    IF family(buf) = AF_INET THEN
        SetSinPort(SetFamily(ZeroMemory(SADDR_SIZE), AF_INET), sin_port(buf))
    ELSE IF family(buf) = AF_INET6 THEN
        SetSinPort(SetFamily(ZeroMemory(SADDR_SIZE), AF_INET6), sin_port(buf))
    ELSE buf

\* operator== / the memcmp over sizeof(SOCKADDR_STORAGE)
memcmp0(x, y) == SubSeq(x, 1, SADDR_SIZE) = SubSeq(y, 1, SADDR_SIZE)

\* Sockaddr::isAddressLoopback: the result and whether the fatal branch ran
IsAddressLoopbackFamilyOnly(buf) ==
    [result |-> family(buf) \in {AF_INET, AF_INET6},
     fatal |-> SetAddressLoopbackBuf(SockaddrCopy(buf)).fatal]
IsAddressLoopbackBuf(buf) ==
    LET loopback == SetAddressLoopbackBuf(SockaddrCopy(buf))
    IN  [result |-> memcmp0(loopback.saddr, buf), fatal |-> loopback.fatal]

\* Sockaddr::isAddressAny
IsAddressAnyZeroCheck(buf) == \A i \in 5..SADDR_SIZE : buf[i] = 0
IsAddressAnyBuf(buf) == memcmp0(SetAddressAnyBuf(SockaddrCopy(buf)), buf)

\* IN6ADDR_V4MAPPEDPREFIX_INIT
v4MappedPrefix == <<0, 0, 0, 0, 0, 0, 0, 0, 0, 0, 255, 255, 0, 0, 0, 0>>

\* Sockaddr::mapDualMode4To6
MapDualMode4To6Reversed(buf) ==
    LET a4 == in_addr(buf)
        t1 == Store(SockaddrFamily(AF_INET6), 8, v4MappedPrefix)
        t2 == Store(t1, 8 + 12, <<a4[4], a4[3], a4[2], a4[1]>>)
    IN  SwapBuf(buf, SetPortBuf(t2, port(buf), "HostOrder"))[1]
MapDualMode4To6Buf(buf) ==
    LET a4 == in_addr(buf)
        t1 == Store(SockaddrFamily(AF_INET6), 8, v4MappedPrefix)
        t2 == Store(t1, 8 + 12, <<a4[1], a4[2], a4[3], a4[4]>>)
        tempV6 == SetPortBuf(t2, port(buf), "HostOrder")
    IN  SwapBuf(buf, tempV6)[1]

----------------------------------------------------------------------------
(* Text.  A string is a sequence of one-character strings; NUL is the       *)
(* terminator and the fill of a zeroed character array.                     *)

NUL == "NUL"
DecDigit == <<"0", "1", "2", "3", "4", "5", "6", "7", "8", "9">>
HexDigit == <<"0", "1", "2", "3", "4", "5", "6", "7", "8", "9",
              "a", "b", "c", "d", "e", "f">>

RECURSIVE Dec(_)
Dec(n) == IF n < 10 THEN <<DecDigit[n + 1]>>
          ELSE Dec(n \div 10) \o <<DecDigit[(n % 10) + 1]>>

RECURSIVE Hex(_)
Hex(n) == IF n < 16 THEN <<HexDigit[n + 1]>>
          ELSE Hex(n \div 16) \o <<HexDigit[(n % 16) + 1]>>

RECURSIVE Join(_, _)
Join(parts, sep) ==
    IF Len(parts) = 0 THEN <<>>
    ELSE IF Len(parts) = 1 THEN parts[1]
    ELSE parts[1] \o sep \o Join(Tail(parts), sep)

\* dotted quad of four address bytes
DottedQuad(a4) == Join([i \in 1..4 |-> Dec(a4[i])], <<".">>)

\* colon-hex of sixteen address bytes: leading zeros dropped, the longest run
\* of two or more zero groups written "::", IPv4-mapped addresses dotted
ColonHex(a6) ==
    LET g == [k \in 1..8 |-> (a6[(2 * k) - 1] * 256) + a6[2 * k]]
        RunLen(s) == Cardinality({l \in 1..(9 - s) : \A k \in s..(s + l - 1) : g[k] = 0})
        best == CHOOSE s \in 1..8 :
                    \A t \in 1..8 : RunLen(s) > RunLen(t) \/ (RunLen(s) = RunLen(t) /\ s <= t)
        n == RunLen(best)
        txt(lo, hi) == Join([k \in 1..(hi - lo + 1) |-> Hex(g[lo + k - 1])], <<":">>)
    IN  IF (\A k \in 1..5 : g[k] = 0) /\ g[6] = 65535
        THEN <<":", ":", "f", "f", "f", "f", ":">> \o DottedQuad(Load(a6, 12, 4))
        ELSE IF n < 2 THEN txt(1, 8)
        ELSE txt(1, best - 1) \o <<":", ":">> \o txt(best + n, 8)

\* ::WSAAddressToString on the buffer: status 0 and the text for an IPv4 or
\* IPv6 address, an error otherwise.  On success addressLength is the length
\* of the string with its terminator counted, as the Winsock call reports
\* it.  The address array is zeroed by the caller first.
WSAAddressToString(buf) ==
    LET p == port(buf)
        scope == scopeId(buf)
        inner6 == ColonHex(in6_addr(buf)) \o (IF scope # 0 THEN <<"%">> \o Dec(scope) ELSE <<>>)
        text == IF family(buf) = AF_INET
                THEN DottedQuad(in_addr(buf)) \o (IF p # 0 THEN <<":">> \o Dec(p) ELSE <<>>)
                ELSE IF p # 0 THEN <<"[">> \o inner6 \o <<"]", ":">> \o Dec(p)
                ELSE inner6
    IN  IF family(buf) \in {AF_INET, AF_INET6} /\ Len(text) + 1 <= IP_STRING_MAX_LENGTH
        THEN [status |-> 0,
              address |-> [i \in 1..IP_STRING_MAX_LENGTH |->
                              IF i <= Len(text) THEN text[i] ELSE NUL],
              addressLength |-> Len(text) + 1]
        ELSE [status |-> 1,
              address |-> [i \in 1..IP_STRING_MAX_LENGTH |-> NUL],
              addressLength |-> IP_STRING_MAX_LENGTH]

\* std::find(first, last, ch) over positions of the array; last when absent
Find(buf, first, last, ch) ==
    IF \E i \in first..(last - 1) : buf[i] = ch
    THEN CHOOSE i \in first..(last - 1) :
             buf[i] = ch /\ \A j \in first..(i - 1) : buf[j] # ch
    ELSE last

\* while (move_ptr != end) { *scope_ptr = *move_ptr; ++scope_ptr; ++move_ptr; }
RECURSIVE MoveLoop(_, _, _, _, _)
MoveLoop(buf, scope_ptr, move_ptr, end, touched) ==
    IF move_ptr = end THEN [address |-> buf, touched |-> touched]
    ELSE MoveLoop([buf EXCEPT ![scope_ptr] = buf[move_ptr]],
                  scope_ptr + 1, move_ptr + 1, end, touched \cup {scope_ptr, move_ptr})

\* while (scope_ptr != end) { *scope_ptr = L'\0'; ++scope_ptr; }
RECURSIVE ZeroLoop(_, _, _, _)
ZeroLoop(buf, scope_ptr, end, touched) ==
    IF scope_ptr = end THEN [address |-> buf, touched |-> touched]
    ELSE ZeroLoop([buf EXCEPT ![scope_ptr] = NUL], scope_ptr + 1, end,
                  touched \cup {scope_ptr})

\* the scope trimming of writeCompleteAddress: position i is address + (i - 1)
TrimScopeSkipBracket(address, addressLength) ==
    LET end == addressLength + 1
        scope_ptr == Find(address, 1, end, "%")
        move_ptr == Find(address, 1, end, "]")
    IN  IF scope_ptr # end
        THEN IF move_ptr # end
             THEN MoveLoop(address, scope_ptr, move_ptr + 1, end, {})
             ELSE ZeroLoop(address, scope_ptr, end, {})
        ELSE [address |-> address, touched |-> {}]
TrimScope(address, addressLength) ==
    LET end == addressLength + 1
        scope_ptr == Find(address, 1, end, "%")
        move_ptr == Find(address, 1, end, "]")
    IN  IF scope_ptr # end
        THEN IF move_ptr # end
             THEN MoveLoop(address, scope_ptr, move_ptr, end, {})
             ELSE ZeroLoop(address, scope_ptr, end, {})
        ELSE [address |-> address, touched |-> {}]

\* Sockaddr::writeCompleteAddress(address, trim_scope)
WriteCompleteAddress(buf, trim_scope) ==
    LET r == WSAAddressToString(buf)
    IN  IF r.status = 0
        THEN IF family(buf) = AF_INET6 /\ trim_scope
             THEN LET t == TrimScope(r.address, r.addressLength)
                  IN  [ret |-> "true", address |-> t.address,
                       addressLength |-> r.addressLength, touched |-> t.touched]
             ELSE [ret |-> "true", address |-> r.address,
                   addressLength |-> r.addressLength, touched |-> {}]
        ELSE [ret |-> "false", address |-> r.address,
              addressLength |-> r.addressLength, touched |-> {}]

----------------------------------------------------------------------------
(* The numeric-host parser, ::GetAddrInfo with AI_NUMERICHOST and no        *)
(* service name: a literal yields one native structure with port 0, any    *)
(* other text a non-zero status.                                            *)

NativeIn(a4, p) ==
    Load(SetPortBuf(SetAddressIn(SockaddrFamily(AF_INET), a4), p, "HostOrder"),
         0, SIZEOF_SOCKADDR_IN)
NativeIn6(a6, p, scope) ==
    Load(SetScopeIdBuf(SetPortBuf(SetAddressIn6(SockaddrFamily(AF_INET6), a6), p, "HostOrder"),
                       scope),
         0, SIZEOF_SOCKADDR_IN6)

FE80_1 == <<254, 128, 0, 0, 0, 0, 0, 0, 0, 0, 0, 0, 0, 0, 0, 1>>
IN6_2 == <<0, 0, 0, 0, 0, 0, 0, 0, 0, 0, 0, 0, 0, 0, 0, 2>>

GetAddrInfoNumericHost(text) ==
    CASE text = "127.0.0.1" ->
            [status |-> 0, ai_addr |-> NativeIn(<<127, 0, 0, 1>>, 0),
             ai_addrlen |-> SIZEOF_SOCKADDR_IN]
      [] text = "fe80::1%3" ->
            [status |-> 0, ai_addr |-> NativeIn6(FE80_1, 0, 3),
             ai_addrlen |-> SIZEOF_SOCKADDR_IN6]
      [] OTHER -> [status |-> 11001, ai_addr |-> <<>>, ai_addrlen |-> 0]

\* Sockaddr::setAddress(PCWSTR) / setAddress(LPCSTR): the result and the buffer
SetAddressTextResetFirst(buf, text) ==
    LET r == GetAddrInfoNumericHost(text)
    IN  IF r.status = 0
        THEN [ret |-> "true", saddr |-> SetSockaddrBuf(r.ai_addr, r.ai_addrlen)]
        ELSE [ret |-> "false", saddr |-> ZeroMemory(SADDR_SIZE)]
SetAddressText(buf, text) ==
    LET r == GetAddrInfoNumericHost(text)
    IN  IF r.status = 0
        THEN [ret |-> "true", saddr |-> SetSockaddrBuf(r.ai_addr, r.ai_addrlen)]
        ELSE [ret |-> "false", saddr |-> buf]

----------------------------------------------------------------------------
(* Name resolution.  ::GetAddrInfoW without hints: status 0 and the list of *)
(* results (ai_addr, ai_addrlen) in ai_next order, or a non-zero Winsock    *)
(* error code, which ::WSAGetLastError then reports too.                    *)

GetAddrInfoW(name) ==
    CASE name = "localhost" ->
            [status |-> 0, lastError |-> 0,
             results |-> <<[ai_addr |-> NativeIn6(<<0, 0, 0, 0, 0, 0, 0, 0, 0, 0, 0, 0, 0, 0, 0, 1>>, 0, 0),
                            ai_addrlen |-> SIZEOF_SOCKADDR_IN6],
                           [ai_addr |-> NativeIn(<<127, 0, 0, 1>>, 0),
                            ai_addrlen |-> SIZEOF_SOCKADDR_IN]>>]
      [] name = "host.test" ->
            [status |-> 0, lastError |-> 0,
             results |-> <<[ai_addr |-> NativeIn(<<1, 2, 3, 4>>, 0),
                            ai_addrlen |-> SIZEOF_SOCKADDR_IN]>>]
      [] name = "empty.test" -> [status |-> 0, lastError |-> 0, results |-> <<>>]
      [] name = "again.test" -> [status |-> 11002, lastError |-> 11002, results |-> <<>>]
      [] OTHER -> [status |-> 11001, lastError |-> 11001, results |-> <<>>]

\* for (addrinfo = addr_result; addrinfo != nullptr; addrinfo = addrinfo->ai_next)
\*     return_addrs.push_back(Sockaddr(addrinfo->ai_addr, addrinfo->ai_addrlen));
RECURSIVE PushBackLoop(_, _)
PushBackLoop(addrinfo, return_addrs) ==
    IF addrinfo = <<>> THEN return_addrs
    ELSE PushBackLoop(Tail(addrinfo),
                      Append(return_addrs,
                             SockaddrRaw(Head(addrinfo).ai_addr, Head(addrinfo).ai_addrlen)))

\* throw ntl::Exception(::WSAGetLastError(), L"GetAddrInfoW", L"ntl::Sockaddr::ResolveName", false)
Exception(code, function, location) ==
    [code |-> code, function |-> function, location |-> location]

\* Sockaddr::ResolveName: the vector returned, or the exception thrown
ResolveNameSwallowing(name) ==
    LET r == GetAddrInfoW(name)
    IN  [ret |-> "returned", return_addrs |-> PushBackLoop(r.results, <<>>)]
ResolveNameResult(name) ==
    LET r == GetAddrInfoW(name)
    IN  IF r.status = 0
        THEN [ret |-> "returned", return_addrs |-> PushBackLoop(r.results, <<>>)]
        ELSE [ret |-> "thrown",
              exception |-> Exception(r.lastError, "GetAddrInfoW", "ntl::Sockaddr::ResolveName")]

----------------------------------------------------------------------------
(* Inputs.                                                                  *)

Families == {AF_UNSPEC, AF_INET, AF_INET6, 1, 258}
Ports == {443}
Orders == {"HostOrder", "NetworkOrder"}
Addrs4 == {<<127, 0, 0, 2>>}
Addrs6 == {IN6_2}
FlowInfos == {5}
ScopeIds == {3}
Texts == {"127.0.0.1", "fe80::1%3", "not-an-ip", "localhost"}
Names == {"localhost", "host.test", "empty.test", "again.test", "no-such-host.test"}

\* a raw source of L readable bytes, tagged f, every other byte non-zero
Pattern(L, f) ==
    [i \in 1..L |-> IF i = 1 THEN f % 256
                    ELSE IF i = 2 THEN (f \div 256) % 256
                    ELSE ((i * 7) % 100) + 1]

SrcLens == {0, 1, 2, SIZEOF_SOCKADDR_IN, SIZEOF_SOCKADDR_IN6, SADDR_SIZE,
            SADDR_SIZE + Oversize}

\* native structures of their native length
NativeSources == {NativeIn(<<1, 2, 3, 4>>, 443), NativeIn6(FE80_1, 443, 3)}
Sources == NativeSources
           \cup {Pattern(L, AF_INET6) : L \in SrcLens}
           \cup {Pattern(SADDR_SIZE, AF_INET), Pattern(SIZEOF_SOCKADDR_IN, 1)}

\* the other Sockaddr of a two-object call
Operands == {SockaddrFamily(AF_UNSPEC)}
            \cup {SockaddrRaw(src, Len(src)) : src \in NativeSources}
            \cup {SockaddrRaw(Pattern(SADDR_SIZE, AF_INET), SADDR_SIZE)}

NoOther == <<>>
NoArgs == [none |-> TRUE]
NoOut == [address |-> <<>>, addressLength |-> 0, touched |-> {}]

----------------------------------------------------------------------------
(* The state machine: one Sockaddr (this), one call per step.               *)

\* the effect of a call that returns
Call(name, a, s, o, r, u) ==
    /\ saddr' = s
    /\ other' = o
    /\ op' = name
    /\ args' = a
    /\ ret' = r
    /\ out' = u
    /\ fatal' = FALSE

\* the effect of a call that ends in AlwaysFatalCondition
Fatal(name, a) ==
    /\ op' = name
    /\ args' = a
    /\ ret' = "fatal"
    /\ fatal' = TRUE
    /\ other' = NoOther
    /\ out' = NoOut
    /\ UNCHANGED saddr

Constructed(name, a, s, o) ==
    /\ saddr = s
    /\ other = o
    /\ op = name
    /\ args = a
    /\ ret = "void"
    /\ out = NoOut
    /\ fatal = FALSE

InitFamily(f) == Constructed("Sockaddr(short)", [family |-> f], SockaddrFamily(f), NoOther)
InitRaw(src) ==
    Constructed("Sockaddr(SOCKADDR*,int)", [inLength |-> Len(src)],
                SockaddrRaw(src, Len(src)), src)
InitCopy(o) == Constructed("Sockaddr(Sockaddr&)", [source |-> o], SockaddrCopy(o), o)
InitMove(o) ==
    Constructed("Sockaddr(Sockaddr&&)", [source |-> o], SockaddrMove(o)[1], SockaddrMove(o)[2])

Init ==
    \/ \E f \in Families : InitFamily(f)
    \/ \E src \in Sources : InitRaw(src)
    \/ \E o \in Operands : InitCopy(o)
    \/ \E o \in Operands : InitMove(o)

Reset(f) ==
    /\ ~fatal
    /\ Call("reset", [family |-> f], ResetBuf(f), NoOther, "void", NoOut)

SetSockaddr(src) ==
    /\ ~fatal
    /\ Call("setSockaddr", [inLength |-> Len(src)], SetSockaddrBuf(src, Len(src)), src,
         "void", NoOut)

\* this->swap(inAddr)
Swap(o) ==
    /\ ~fatal
    /\ Call("swap", [source |-> o], SwapBuf(saddr, o)[1], SwapBuf(saddr, o)[2], "void", NoOut)

\* *this = inAddr
AssignCopy(o) ==
    /\ ~fatal
    /\ Call("operator=(Sockaddr&)", [source |-> o], CopyAssign(saddr, o)[1],
         CopyAssign(saddr, o)[2], "void", NoOut)

\* *this = std::move(inAddr)
AssignMove(o) ==
    /\ ~fatal
    /\ Call("operator=(Sockaddr&&)", [source |-> o], MoveAssign(saddr, o)[1],
         MoveAssign(saddr, o)[2], "void", NoOut)

\* Sockaddr other(std::move(*this)): this object is the one moved from
MovedFromByConstructor ==
    /\ ~fatal
    /\ Call("moved by Sockaddr(Sockaddr&&)", [source |-> saddr], SockaddrMove(saddr)[2],
         SockaddrMove(saddr)[1], "void", NoOut)

\* other = std::move(*this), other default-constructed: this object is the one moved from
MovedFromByAssignment ==
    /\ ~fatal
    /\ Call("moved by operator=(Sockaddr&&)", [source |-> saddr],
         MoveAssign(SockaddrFamily(AF_UNSPEC), saddr)[2],
         MoveAssign(SockaddrFamily(AF_UNSPEC), saddr)[1], "void", NoOut)

SetPort(p, order) ==
    /\ ~fatal
    /\ Call("setPort", [port |-> p, order |-> order], SetPortBuf(saddr, p, order), NoOther,
         "void", NoOut)

SetAddress4(a4) ==
    /\ ~fatal
    /\ Call("setAddress(IN_ADDR*)", [addr |-> a4], SetAddressIn(saddr, a4), NoOther, "void", NoOut)

SetAddress6(a6) ==
    /\ ~fatal
    /\ Call("setAddress(IN6_ADDR*)", [addr |-> a6], SetAddressIn6(saddr, a6), NoOther, "void", NoOut)

SetFlowInfo(v) ==
    /\ ~fatal
    /\ Call("setFlowInfo", [value |-> v], SetFlowInfoBuf(saddr, v), NoOther, "void", NoOut)

SetScopeId(v) ==
    /\ ~fatal
    /\ Call("setScopeId", [value |-> v], SetScopeIdBuf(saddr, v), NoOther, "void", NoOut)

SetAddressAny ==
    /\ ~fatal
    /\ Call("setAddressAny", NoArgs, SetAddressAnyBuf(saddr), NoOther, "void", NoOut)

SetAddressLoopback ==
    /\ ~fatal
    /\ LET r == SetAddressLoopbackBuf(saddr)
       IN  IF r.fatal THEN Fatal("setAddressLoopback", NoArgs)
           ELSE Call("setAddressLoopback", NoArgs, r.saddr, NoOther, "void", NoOut)

IsAddressLoopback ==
    /\ ~fatal
    /\ LET r == IsAddressLoopbackBuf(saddr)
       IN  IF r.fatal THEN Fatal("isAddressLoopback", NoArgs)
           ELSE Call("isAddressLoopback", NoArgs, saddr, NoOther,
                     IF r.result THEN "true" ELSE "false", NoOut)

IsAddressAny ==
    /\ ~fatal
    /\ Call("isAddressAny", NoArgs, saddr, NoOther,
         IF IsAddressAnyBuf(saddr) THEN "true" ELSE "false", NoOut)

MapDualMode4To6 ==
    /\ ~fatal
    /\ Call("mapDualMode4To6", NoArgs, MapDualMode4To6Buf(saddr), NoOther, "void", NoOut)

SetAddressString(text) ==
    /\ ~fatal
    /\ LET r == SetAddressText(saddr, text)
       IN  Call("setAddress(string)", [text |-> text], r.saddr, NoOther, r.ret,
             NoOut)

WriteComplete(trim_scope) ==
    /\ ~fatal
    /\ LET r == WriteCompleteAddress(saddr, trim_scope)
       IN  Call("writeCompleteAddress", [trim_scope |-> trim_scope], saddr, NoOther, r.ret,
             [address |-> r.address, addressLength |-> r.addressLength,
              touched |-> r.touched])

\* Sockaddr::ResolveName, a static member: this object is not touched
ResolveName(name) ==
    /\ ~fatal
    /\ LET r == ResolveNameResult(name)
       IN  Call("ResolveName", [name |-> name], saddr, NoOther, r.ret,
                IF r.ret = "returned" THEN [return_addrs |-> r.return_addrs]
                ELSE [exception |-> r.exception])

Next ==
    \/ \E f \in Families : Reset(f)
    \/ \E src \in Sources : SetSockaddr(src)
    \/ \E o \in Operands : Swap(o)
    \/ \E o \in Operands : AssignCopy(o)
    \/ \E o \in Operands : AssignMove(o)
    \/ MovedFromByConstructor
    \/ MovedFromByAssignment
    \/ \E p \in Ports, order \in Orders : SetPort(p, order)
    \/ \E a4 \in Addrs4 : SetAddress4(a4)
    \/ \E a6 \in Addrs6 : SetAddress6(a6)
    \/ \E v \in FlowInfos : SetFlowInfo(v)
    \/ \E v \in ScopeIds : SetScopeId(v)
    \/ SetAddressAny
    \/ SetAddressLoopback
    \/ IsAddressLoopback
    \/ IsAddressAny
    \/ MapDualMode4To6
    \/ \E text \in Texts : SetAddressString(text)
    \/ \E trim_scope \in BOOLEAN : WriteComplete(trim_scope)
    \/ \E name \in Names : ResolveName(name)

Spec == Init /\ [][Next]_vars

----------------------------------------------------------------------------
(* Properties.                                                              *)

Min(x, y) == IF x <= y THEN x ELSE y
AllZero == [i \in 1..SADDR_SIZE |-> 0]
RawOps == {"Sockaddr(SOCKADDR*,int)", "setSockaddr"}

\* C1: a raw-buffer construction or setSockaddr from L readable bytes leaves
\* the first min(L, SADDR_SIZE) bytes of the source in the buffer and zero in
\* the rest; an oversized source is truncated, the call returns normally and
\* the buffer is still exactly SADDR_SIZE bytes (nothing past it was written).
C1_RawCopyTruncates ==
    op \in RawOps =>
        /\ Len(saddr) = SADDR_SIZE
        /\ \A i \in 1..SADDR_SIZE :
              saddr[i] = IF i <= Min(args.inLength, SADDR_SIZE) THEN other[i] ELSE 0
        /\ ret = "void"
        /\ ~fatal

\* C1 witness: setSockaddr took a source longer than the buffer and filled
\* the buffer to its last byte
C1_OversizedSourceCopied ==
    /\ op = "setSockaddr"
    /\ args.inLength > SADDR_SIZE
    /\ saddr[SADDR_SIZE] # 0

\* C2: after a move construction or a move assignment the destination holds
\* the source's former buffer and the moved-from source is all zero.
C2_MoveZeroesSource ==
    /\ op \in {"Sockaddr(Sockaddr&&)", "operator=(Sockaddr&&)"} =>
          saddr = args.source /\ other = AllZero
    /\ op \in {"moved by Sockaddr(Sockaddr&&)", "moved by operator=(Sockaddr&&)"} =>
          other = args.source /\ saddr = AllZero

\* the size of the native structure of the family the buffer carries
NativeSize(buf) == IF family(buf) = AF_INET THEN SIZEOF_SOCKADDR_IN ELSE SIZEOF_SOCKADDR_IN6
ZeroBeyond(buf, n) == \A i \in (n + 1)..Len(buf) : buf[i] = 0
\* every byte beyond the native structure of an IPv4 or IPv6 buffer is zero
TailZero(buf) == family(buf) \in {AF_INET, AF_INET6} => ZeroBeyond(buf, NativeSize(buf))

\* C3 as claimed: in every reachable state the bytes beyond the native
\* structure of the current family are zero.
C3_TailAlwaysZero == TailZero(saddr)

\* C3 amended: the tail is zero after the family constructor, reset,
\* setAddressAny, setAddressLoopback and mapDualMode4To6; setPort, setFlowInfo
\* and setScopeId keep a zero tail zero; setAddress(IN6_ADDR) leaves a zero
\* tail when nothing beyond the IPv6 structure was set; a buffer taken from
\* another object has the tail that object had, one taken from a raw source
\* has a zero tail exactly when the copied source bytes beyond the structure
\* are zero;
\* setAddress(IN_ADDR) leaves a zero tail exactly when the bytes beyond the
\* IPv4 structure were zero before, so on an IPv6 instance with a non-zero
\* address tail or scope id it yields an IPv4 buffer with non-zero tail.
C3_TailZeroWhereKept ==
    /\ [](op = "Sockaddr(short)" => TailZero(saddr))
    /\ [](op \in RawOps =>
            (TailZero(saddr) <=>
                \A i \in (NativeSize(saddr) + 1)..Min(args.inLength, SADDR_SIZE) : other[i] = 0))
    /\ [][ /\ op' \in {"reset", "setAddressAny", "setAddressLoopback", "mapDualMode4To6"} =>
                TailZero(saddr')
           /\ op' \in {"setPort", "setFlowInfo", "setScopeId"} =>
                (TailZero(saddr) => TailZero(saddr'))
           /\ op' = "setAddress(IN6_ADDR*)" =>
                (ZeroBeyond(saddr, SIZEOF_SOCKADDR_IN6) => TailZero(saddr'))
           /\ op' \in {"swap", "operator=(Sockaddr&)", "operator=(Sockaddr&&)"} =>
                (TailZero(saddr') <=> TailZero(args'.source))
           /\ op' = "setAddress(IN_ADDR*)" =>
                /\ family(saddr') = AF_INET
                /\ \A i \in 1..SADDR_SIZE : i \notin {1, 2, 5, 6, 7, 8} => saddr'[i] = saddr[i]
                /\ TailZero(saddr') <=> ZeroBeyond(saddr, SIZEOF_SOCKADDR_IN)
         ]_vars

\* C3 witness: setAddress(IN_ADDR) was applied to an IPv6 instance with scope
\* id 3: the family is IPv4 and the scope id bytes are still there
C3_StaleScopeAfterSetAddress4 ==
    /\ op = "setAddress(IN_ADDR*)"
    /\ family(saddr) = AF_INET
    /\ Load(saddr, 24, 4) = <<3, 0, 0, 0>>
    /\ ZeroBeyond(saddr, SIZEOF_SOCKADDR_IN6)

\* C4 as claimed: the family is always unspecified, IPv4 or IPv6.
C4_FamilyIsOneOfThree == family(saddr) \in {AF_UNSPEC, AF_INET, AF_INET6}

\* C4 amended: the family constructor and reset store the family they are
\* given, whatever it is; the raw-buffer constructor and setSockaddr store the
\* first two bytes of the source (zero for the bytes a short source lacks).
C4_FamilyIsWhatWasSupplied ==
    /\ op \in {"Sockaddr(short)", "reset"} => family(saddr) = args.family % 65536
    /\ op \in RawOps =>
          family(saddr) = (IF args.inLength >= 1 THEN other[1] ELSE 0)
                          + 256 * (IF args.inLength >= 2 THEN other[2] ELSE 0)

\* C4 witness: reset was given a family that is none of the three
C4_ResetToOtherFamily ==
    /\ op = "reset"
    /\ family(saddr) = 258

\* C5: the string form of setAddress returns false and leaves every byte of
\* the buffer as it was when the numeric-host parser rejects the text; it
\* returns true exactly when the parser accepts it, and the buffer is then
\* the parsed structure, zero-padded.
C5_SetAddressStringAllOrNothing ==
    [][ op' = "setAddress(string)" =>
            LET r == GetAddrInfoNumericHost(args'.text)
            IN  /\ ret' \in {"true", "false"}
                /\ (ret' = "true") <=> (r.status = 0)
                /\ r.status # 0 => saddr' = saddr
                /\ r.status = 0 =>
                      saddr' = [i \in 1..SADDR_SIZE |->
                                   IF i <= r.ai_addrlen THEN r.ai_addr[i] ELSE 0]
      ]_vars

\* C5 witness: the parser rejected the text and the instance still is an IPv6
\* endpoint with a port and a scope id
C5_RejectedTextKeepsEndpoint ==
    /\ op = "setAddress(string)"
    /\ args.text = "not-an-ip"
    /\ ret = "false"
    /\ family(saddr) = AF_INET6
    /\ port(saddr) = 443
    /\ scopeId(saddr) = 3

\* C6: mapDualMode4To6 on an IPv4 instance a.b.c.d:p leaves family IPv6, the
\* address 00*10 ff ff a b c d, the port bytes of p, and zero everywhere else.
C6_MapDualModeLayout ==
    [][ (op' = "mapDualMode4To6" /\ family(saddr) = AF_INET) =>
            saddr' = [i \in 1..SADDR_SIZE |->
                         CASE i = 1 -> AF_INET6
                           [] i \in 3..4 -> saddr[i]
                           [] i \in 19..20 -> 255
                           [] i \in 21..24 -> saddr[i - 16]
                           [] OTHER -> 0]
      ]_vars

\* C6 witness: 1.2.3.4:443 was mapped to [::ffff:1.2.3.4]:443
C6_MappedOneTwoThreeFour ==
    /\ op = "mapDualMode4To6"
    /\ family(saddr) = AF_INET6
    /\ in6_addr(saddr) = <<0, 0, 0, 0, 0, 0, 0, 0, 0, 0, 255, 255, 1, 2, 3, 4>>
    /\ port(saddr) = 443

\* the characters of a zero-terminated array before its terminator
CStr(address) == SubSeq(address, 1, Find(address, 1, Len(address) + 1, NUL) - 1)
\* the positions of ch in a string
Positions(str, ch) == {i \in 1..Len(str) : str[i] = ch}
\* a rendering with its "%scope" segment cut out
WithoutScope(str) ==
    IF Positions(str, "%") = {} THEN str
    ELSE LET p == CHOOSE i \in Positions(str, "%") : \A j \in Positions(str, "%") : i <= j
         IN  IF Positions(str, "]") = {} THEN SubSeq(str, 1, p - 1)
             ELSE LET q == CHOOSE i \in Positions(str, "]") : TRUE
                  IN  SubSeq(str, 1, p - 1) \o SubSeq(str, q, Len(str))

\* C7: for an IPv6 instance and trim_scope, writeCompleteAddress returns the
\* untrimmed rendering with exactly the "%scope" segment removed, and the
\* trimming touches no position at or beyond address + addressLength.
C7_TrimRemovesExactlyTheScope ==
    (op = "writeCompleteAddress" /\ ret = "true" /\ args.trim_scope
        /\ family(saddr) = AF_INET6) =>
        /\ CStr(out.address) = WithoutScope(CStr(WSAAddressToString(saddr).address))
        /\ \A i \in out.touched : i >= 1 /\ i <= out.addressLength
        /\ out.addressLength <= IP_STRING_MAX_LENGTH

\* C7 witness: "[fe80::1%3]:443" was trimmed to "[fe80::1]:443"
C7_BracketedScopeTrimmed ==
    /\ op = "writeCompleteAddress"
    /\ args.trim_scope
    /\ CStr(WSAAddressToString(saddr).address)
          = <<"[", "f", "e", "8", "0", ":", ":", "1", "%", "3", "]", ":", "4", "4", "3">>
    /\ CStr(out.address) = <<"[", "f", "e", "8", "0", ":", ":", "1", "]", ":", "4", "4", "3">>

\* the canonical loopback value of IPv4 / IPv6 with the port bytes p1 p2
LoopbackValue(f, p1, p2) ==
    [i \in 1..SADDR_SIZE |->
        CASE i = 1 -> f
          [] i = 3 -> p1
          [] i = 4 -> p2
          [] i = 5 /\ f = AF_INET -> 127
          [] i = 8 /\ f = AF_INET -> 1
          [] i = 24 /\ f = AF_INET6 -> 1
          [] OTHER -> 0]
\* the address bytes of the family: positions 5..8 or 9..24
AddressPositions(f) == IF f = AF_INET THEN 5..8 ELSE 9..24

\* C8: on an IPv4 or IPv6 instance isAddressLoopback returns true exactly
\* when the buffer is the loopback value of its family with its own port, in
\* particular false when it differs from that value in one address byte, and
\* the call leaves the buffer as it was.
C8_IsLoopbackExactlyTheCanonicalValue ==
    [][ op' = "isAddressLoopback" =>
            /\ saddr' = saddr
            /\ family(saddr) \in {AF_INET, AF_INET6} =>
                  LET canon == LoopbackValue(family(saddr), saddr[3], saddr[4])
                  IN  /\ ret' \in {"true", "false"}
                      /\ (ret' = "true") <=> (saddr = canon)
                      /\ (\E i \in AddressPositions(family(saddr)) :
                              /\ saddr[i] # canon[i]
                              /\ \A j \in 1..SADDR_SIZE : j # i => saddr[j] = canon[j])
                          => ret' = "false"
      ]_vars

\* C8 witness: isAddressLoopback answered false for 127.0.0.2 with port 443,
\* one address byte away from the loopback value
C8_OneByteOffIsNotLoopback ==
    /\ op = "isAddressLoopback"
    /\ ret = "false"
    /\ family(saddr) = AF_INET
    /\ port(saddr) = 443
    /\ in_addr(saddr) = <<127, 0, 0, 2>>
    /\ ZeroBeyond(saddr, 8)

\* C9: setAddressAny on an IPv4 or IPv6 instance keeps family and port and
\* zeroes every other byte, on any other family it changes nothing, and a
\* second application changes nothing more.
C9_SetAddressAnyKeepsFamilyAndPortOnly ==
    /\ [](SetAddressAnyBuf(SetAddressAnyBuf(saddr)) = SetAddressAnyBuf(saddr))
    /\ [][ op' = "setAddressAny" =>
              /\ ret' = "void"
              /\ IF family(saddr) \in {AF_INET, AF_INET6}
                 THEN saddr' = [i \in 1..SADDR_SIZE |-> IF i \in 1..4 THEN saddr[i] ELSE 0]
                 ELSE saddr' = saddr
         ]_vars

\* C9 witness: setAddressAny ran on an IPv6 instance that had a port; the
\* port is kept and everything after it is zero
C9_AnyOnIPv6WithPort ==
    /\ op = "setAddressAny"
    /\ family(saddr) = AF_INET6
    /\ port(saddr) = 443
    /\ ZeroBeyond(saddr, 4)

\* C10: setAddressLoopback on a family that is neither IPv4 nor IPv6 ends in
\* the fatal outcome with the buffer not rewritten, and nothing runs after
\* it; on IPv4 or IPv6 it returns normally with family and port kept, the
\* address 127.0.0.1 or ::1 and zero everywhere else.
C10_LoopbackFatalOnlyOffFamily ==
    /\ [][~fatal]_vars
    /\ [][ op' = "setAddressLoopback" =>
              IF family(saddr) \in {AF_INET, AF_INET6}
              THEN /\ ret' = "void"
                   /\ ~fatal'
                   /\ saddr' = LoopbackValue(family(saddr), saddr[3], saddr[4])
              ELSE /\ ret' = "fatal"
                   /\ fatal'
                   /\ saddr' = saddr
         ]_vars

\* C10 witness: setAddressLoopback reached the fatal outcome on an
\* unspecified-family instance
C10_FatalOnUnspecified ==
    /\ op = "setAddressLoopback"
    /\ ret = "fatal"
    /\ fatal
    /\ family(saddr) = AF_UNSPEC

\* the resolver result k as the raw-buffer constructor builds it
FromResult(r) ==
    [i \in 1..SADDR_SIZE |-> IF i <= Min(r.ai_addrlen, SADDR_SIZE) THEN r.ai_addr[i] ELSE 0]

\* what both readings of C11 agree on: ResolveName returns exactly when the
\* resolver reports success, with one Sockaddr per result in resolver order,
\* and throws exactly when it reports failure
ResolveNameReturnsOrThrows ==
    LET r == GetAddrInfoW(args.name)
    IN  /\ (ret = "returned") <=> (r.status = 0)
        /\ (ret = "thrown") <=> (r.status # 0)
        /\ r.status = 0 =>
              /\ Len(out.return_addrs) = Len(r.results)
              /\ \A k \in 1..Len(r.results) : out.return_addrs[k] = FromResult(r.results[k])

\* C11 as claimed: ... and the error raised on failure carries the resolver's
\* status code and the attempted name.
C11_ErrorCarriesCodeAndName ==
    op = "ResolveName" =>
        /\ ResolveNameReturnsOrThrows
        /\ ret = "thrown" =>
              /\ out.exception.code = GetAddrInfoW(args.name).status
              /\ args.name \in {out.exception.function, out.exception.location}

\* C11 amended: ... and the error raised on failure carries the resolver's
\* status code and the two fixed strings "GetAddrInfoW" and
\* "ntl::Sockaddr::ResolveName"; the attempted name is not in it.
C11_ErrorCarriesCodeAndCallSite ==
    op = "ResolveName" =>
        /\ ResolveNameReturnsOrThrows
        /\ ret = "thrown" =>
              /\ out.exception.code = GetAddrInfoW(args.name).status
              /\ out.exception.function = "GetAddrInfoW"
              /\ out.exception.location = "ntl::Sockaddr::ResolveName"
              /\ args.name \notin {out.exception.function, out.exception.location}

\* C11 witness: resolving "no-such-host.test" threw with code 11001
C11_UnknownHostThrows ==
    /\ op = "ResolveName"
    /\ args.name = "no-such-host.test"
    /\ ret = "thrown"
    /\ out.exception.code = 11001

\* C12: on an instance whose family is neither AF_INET nor AF_INET6,
\* isAddressAny returns true whatever the rest of the buffer holds and
\* isAddressLoopback ends in the fatal outcome instead of returning false; on
\* an AF_INET or AF_INET6 instance isAddressAny returns true exactly when
\* every byte other than family and port is zero.
C12_IsAddressAnyByFamily ==
    [][ /\ op' = "isAddressAny" =>
              /\ family(saddr) \notin {AF_INET, AF_INET6} => ret' = "true"
              /\ family(saddr) \in {AF_INET, AF_INET6} =>
                    ((ret' = "true") <=> (\A i \in 5..SADDR_SIZE : saddr[i] = 0))
              /\ ret' \in {"true", "false"}
        /\ (op' = "isAddressLoopback" /\ family(saddr) \notin {AF_INET, AF_INET6}) =>
              (ret' = "fatal" /\ fatal') ]_vars

\* C12 witness: isAddressAny answered true on a family-1 instance whose
\* bytes after the port are not zero
C12_AnyOnDirtyOtherFamily ==
    /\ op = "isAddressAny"
    /\ ret = "true"
    /\ family(saddr) = 1
    /\ \E i \in 5..SADDR_SIZE : saddr[i] # 0

====
